---- MODULE Spec2Model ----
(***************************************************************************)
(* Model of homeassistant/components/hyperion/switch.py: the reconciler    *)
(* of async_setup_entry (the diff routine async_instances_to_entities_raw  *)
(* and its update-signal wrapper), async_setup_platform and the            *)
(* HyperionSwitch entity.                                                  *)
(*                                                                         *)
(* Every coroutine is cut at its suspension points: a step of the model is *)
(* the code an asyncio task runs between two awaits that can yield to the  *)
(* event loop.                                                             *)
(***************************************************************************)
EXTENDS Integers, Sequences, FiniteSets, TLC

VARIABLES
    server_id,         \* config_entry.unique_id, a string or None
    platform,          \* where async_setup_platform is and the id it was given
    root_instances,    \* hass.data[DOMAIN][entry_id][CONF_ROOT_CLIENT].instances
    setup_pc,          \* where async_setup_entry is
    current_entities,  \* the closure's set of known unique ids (line 116)
    updates,           \* number of update signals delivered to the listener
    runs,              \* the calls of the diff routine that have not returned
    last_run,          \* the call of the diff routine that returned last
    clients,           \* the client handles that were acquired
    entities,          \* the HyperionSwitch objects that were constructed
    signals_sent,      \* removal signals the diff routine has broadcast
    registry_removed,  \* unique ids whose registry entry the diff routine removed
    connects,          \* unique ids for which line 89 has asked for a client
    effect             \* what the last call into an entity did: the remote
                       \* calls it issued and the states it wrote to the host

vars == <<server_id, root_instances, platform, setup_pc, current_entities, updates, runs,
          last_run, clients, entities, signals_sent, registry_removed, connects,
          effect>>

(***************************************************************************)
(* Bounds of the model.                                                    *)
(***************************************************************************)
\* update events dispatched to the listener after setup
MaxUpdates == 2
\* client handles the server grants; a further acquisition fails
MaxClients == 4
\* the largest instance id of a server with two instances
MaxInstanceId == 11

(***************************************************************************)
(* Program constants.                                                      *)
(***************************************************************************)
\* const.KEY_COMPONENTID_EXTERNAL_SOURCES + [const.KEY_COMPONENTID_LEDDEVICE]
ExternalSourcesOnly == <<"BOBLIGHTSERVER", "GRABBER", "V4L">>

ComponentTypes == <<"BOBLIGHTSERVER", "GRABBER", "V4L", "LEDDEVICE">>

TYPE_HYPERION_SWITCH == "hyperion_switch"

\* an Optional value: None, or the value it holds
None == {}
Some(x) == {x}

\* an Optional string in an f-string: f"{None}" is "None"
Str(x) == IF x = None THEN "None" ELSE CHOOSE v \in x : TRUE

KEY_DATA == "data"
KEY_INSTANCE == "instance"
KEY_RUNNING == "running"

\* an identifier that leaves the instance out
get_hyperion_unique_id_of_name(sid, instance, name) == Str(sid) \o "_" \o name

\* f"{server_id}_{instance}_{name}"
get_hyperion_unique_id(sid, instance, name) ==
    Str(sid) \o "_" \o ToString(instance) \o "_" \o name

(***************************************************************************)
(* Inputs: the instance dictionaries a snapshot is made of.  A dictionary  *)
(* is a function from the keys it holds.                                   *)
(***************************************************************************)
InstanceABC == [instance |-> 1, running |-> TRUE,
                components |-> <<"USB_CAPTURE", "LEDDEVICE">>]
InstanceStopped == [instance |-> 1, running |-> FALSE]
InstanceNoRunning == [instance |-> 1]
InstanceNoId == [running |-> TRUE]
InstancePlain == [instance |-> 1, running |-> TRUE]

\* the one running instance of the scenario; nothing runs; a stopped instance
\* before a running one
SnapshotABC == <<InstanceABC>>
SnapshotIdle == <<InstanceNoId, InstanceNoRunning, InstanceStopped>>
SnapshotMixed == <<InstanceStopped, InstancePlain>>

\* the instances of the root client at setup
Snapshots == {SnapshotABC, SnapshotIdle, SnapshotMixed}

\* a server with two running instances, of any two instance ids
InstanceIds == -1 .. MaxInstanceId
Running(instance_id) == [instance |-> instance_id, running |-> TRUE]
TwoInstanceSnapshots ==
    {<<Running(a), Running(b)>> : a \in InstanceIds, b \in InstanceIds}

\* the instances an update signal carries
UpdateSnapshots == {SnapshotABC, SnapshotIdle}

\* the unique id of a config entry the config flow made; of any config entry
ServerIds == {Some("abc")}
OptionalServerIds == ServerIds \cup {None}

\* what async_sysinfo_id returns (line 51)
SysinfoIds == {None, Some(""), Some("abc")}

\* dict.get(key, default)
Get(dict, key, default) == IF key \in DOMAIN dict THEN dict[key] ELSE default

(***************************************************************************)
(* The loop of lines 77-88, from position (i, c) of the snapshot up to the *)
(* next await of line 89 or the end of the snapshot.  No await lies in     *)
(* between, so it is one step.                                             *)
(***************************************************************************)
UniqueIdAt(sid, instances, i, c) ==
    get_hyperion_unique_id(sid, instances[i][KEY_INSTANCE],
                           TYPE_HYPERION_SWITCH \o "_" \o ComponentTypes[c])

\* line 79: the instance is skipped
SkippedWithoutId(instance) == KEY_INSTANCE \notin DOMAIN instance

Skipped(instance) ==
    \/ KEY_INSTANCE \notin DOMAIN instance
    \/ ~Get(instance, KEY_RUNNING, FALSE)

\* line 87
IsKnownNever(unique_id, known) == FALSE

IsKnown(unique_id, known) == unique_id \in known

RECURSIVE Scan(_, _, _, _, _, _)
Scan(sid, instances, i, c, desired, known) ==
    IF i > Len(instances)
    THEN [pc |-> "add", i |-> i, c |-> c, desired |-> desired]
    ELSE IF Skipped(instances[i]) \/ c > Len(ComponentTypes)
    THEN Scan(sid, instances, i + 1, 1, desired, known)
    ELSE LET unique_id == UniqueIdAt(sid, instances, i, c) IN
         IF IsKnown(unique_id, known)
         THEN Scan(sid, instances, i, c + 1, desired \cup {unique_id}, known)
         ELSE [pc |-> "connect", i |-> i, c |-> c,
               desired |-> desired \cup {unique_id}]

Range(seq) == {seq[k] : k \in DOMAIN seq}

\* seq without its element at position k
Without(seq, k) == SubSeq(seq, 1, k - 1) \o SubSeq(seq, k + 1, Len(seq))

(***************************************************************************)
(* Inputs: the responses the update signal carries (line 66).              *)
(***************************************************************************)
EmptyResponse == [k \in {} |-> <<>>]
NoDataResponse == [command |-> <<>>]
DataResponses == {[data |-> S] : S \in UpdateSnapshots}
Responses == DataResponses \cup {EmptyResponse, NoDataResponse}

\* line 66: not response or const.KEY_DATA not in response
Ignored(response) == DOMAIN response = {} \/ KEY_DATA \notin DOMAIN response

(***************************************************************************)
(* Objects.  A client handle and an entity are named by the unique id they *)
(* were made for and by how many were made for it before.                  *)
(***************************************************************************)
\* a call of async_instances_to_entities_raw, at its first line; gone notes
\* the unique ids whose entity had been removed when the call was made
NewRun(kind, instances) ==
    [kind |-> kind, pc |-> "start", instances |-> instances, i |-> 1, c |-> 1,
     entities_to_add |-> <<>>, desired_unique_ids |-> {}, gone |-> {}]

\* the call has returned: its locals are gone, what it handed over remains
Returned(run) ==
    [run EXCEPT !.pc = "done", !.i = 0, !.c = 0, !.desired_unique_ids = {}]

NoRun == Returned(NewRun("none", <<>>))

\* the handle async_create_connect_hyperion_client returns (lines 89-91);
\* its cache says off until a components update says otherwise
NewClient(instance_id) ==
    [instance |-> instance_id, connected |-> TRUE, is_on |-> FALSE,
     callbacks |-> {}, disconnects |-> 0]

\* HyperionSwitch.__init__ (lines 132-143); st and listener are the host's
\* view of the entity, by the kind of the call that constructed it
NewEntity(unique_id, name, hyperion_client, kind) ==
    [unique_id |-> unique_id, name |-> name, client |-> hyperion_client,
     st |-> "constructed", listener |-> {}, by |-> kind]

FreshKey(unique_id, made) ==
    <<unique_id, 1 + Cardinality({k \in made : k[1] = unique_id})>>

(***************************************************************************)
(* Lines 104-110: the identifiers the diff deletes.  The deletion is       *)
(* commented out in the source, so none is.                                *)
(***************************************************************************)
StaleEnabled(known, desired) == known \ desired

Stale(known, desired) == {}

\* lines 92-94: the known set after the acquisition returned
KnownAfterAlways(known, unique_id, ok) == known \cup {unique_id}

KnownAfter(known, unique_id, ok) ==
    IF ok THEN known \cup {unique_id} ELSE known

\* lines 95-102: the entities the run has collected after the acquisition
CollectedAfter(entities_to_add, entity, ok) ==
    IF ok THEN Append(entities_to_add, entity) ELSE entities_to_add

\* line 112: async_add_entities(entities_to_add)
async_add_entities(ents, entities_to_add) ==
    [e \in DOMAIN ents |->
        IF e \in Range(entities_to_add)
        THEN [ents[e] EXCEPT !.st = "uninitialized"]
        ELSE ents[e]]

(***************************************************************************)
(* The run r of rs goes on from its position up to its next await (line    *)
(* 89) or to its end (lines 104-112), where it hands its entities to the   *)
(* host and, when it is the run of setup, setup connects the listener      *)
(* (lines 121-128).                                                        *)
(***************************************************************************)
Continue(rs, r, known, ents) ==
    LET run == rs[r]
        s == Scan(server_id, run.instances, run.i, run.c,
                  run.desired_unique_ids, known)
        at == [run EXCEPT !.i = s.i, !.c = s.c, !.desired_unique_ids = s.desired]
        stale == Stale(known, s.desired)
    IN  IF s.pc = "connect"
        THEN /\ runs' = [rs EXCEPT ![r] = [at EXCEPT !.pc = "connect"]]
             /\ connects' = connects \cup
                     {UniqueIdAt(server_id, run.instances, s.i, s.c)}
             /\ current_entities' = known
             /\ entities' = ents
             /\ setup_pc' = IF run.kind = "setup" THEN "line118" ELSE setup_pc
             /\ UNCHANGED <<last_run, signals_sent, registry_removed>>
        ELSE /\ runs' = Without(rs, r)
             /\ connects' = connects
             /\ last_run' = Returned(at)
             /\ current_entities' = known \ stale
             /\ signals_sent' = signals_sent \cup stale
             /\ registry_removed' = registry_removed \cup stale
             /\ entities' = async_add_entities(ents, run.entities_to_add)
             /\ setup_pc' = IF run.kind = "setup" THEN "returned" ELSE setup_pc

(***************************************************************************)
(* HyperionSwitch.  An effect records one call into an entity: the cached  *)
(* state the call read, the set-component calls it sent to its client and  *)
(* the states it wrote to the host (async_write_ha_state); then what the   *)
(* call was given (the replies of the client to its calls, the payload of  *)
(* a push) and how it ended ("None" is the value every method returns).    *)
(***************************************************************************)
Effect(op, entity, is_on, calls, written) ==
    [op |-> op, entity |-> entity, is_on |-> is_on, calls |-> calls,
     written |-> written, given |-> <<>>, ended |-> "None"]

NoEffect == Effect("none", <<>>, FALSE, <<>>, <<>>)

\* a call of client.async_send_set_component (lines 172-179, 184-191)
SetComponent(hyperion_client, component, state) ==
    [client |-> hyperion_client, component |-> component, state |-> state]

\* line 167: self._client.is_on([self._name])
is_on(entity) == clients[entity.client].is_on

\* lines 171-180: the calls async_turn_on sends
TurnOnAlways(entity, on) == <<SetComponent(entity.client, entity.name, TRUE)>>

TurnOnCalls(entity, on) ==
    IF ~on THEN <<SetComponent(entity.client, entity.name, TRUE)>> ELSE <<>>

\* lines 184-192: the calls async_turn_off sends
TurnOffWhenOn(entity, on) ==
    IF on THEN <<SetComponent(entity.client, entity.name, FALSE)>> ELSE <<>>

TurnOffCalls(entity, on) == <<SetComponent(entity.client, entity.name, FALSE)>>

\* lines 172-180, 184-192: how a turn call ends when its set-component call
\* has returned sent (TRUE: sent, FALSE: failure); both branches fall off the
\* end of the method
TurnEndsRaising(sent) == IF sent THEN "None" ELSE "raise"

TurnEnds(sent) == "None"

\* the replies the client gave to the calls, and how the method ended
Replied(e, calls, result) ==
    [e EXCEPT !.given = [k \in DOMAIN calls |-> result],
              !.ended = IF calls = <<>> THEN "None" ELSE TurnEnds(result)]

\* a render that needs a payload
UpdateComponentsOfPayload(entity, payload, on) ==
    IF payload \in {None, Some(<<>>)} THEN <<>> ELSE <<on>>

\* lines 194-196: the states _update_components writes, whatever its argument
UpdateComponents(entity, payload, on) == <<on>>

\* lines 201-207: the topics the entity listens to once added
ListenerNone(entity) == {}

Listener(entity) == {entity.unique_id}

\* lines 209-213: set_callbacks replaces the client's callbacks
SetCallbacks(hyperion_client, e) == [hyperion_client EXCEPT !.callbacks = {e}]

\* lines 218-220: the client after async_will_remove_from_hass
StaysConnected(hyperion_client) == hyperion_client

Disconnected(hyperion_client) ==
    [hyperion_client EXCEPT !.connected = FALSE, !.disconnects = @ + 1]

(***************************************************************************)
(* Actions of the reconciler.                                              *)
(***************************************************************************)
Fresh ==
    /\ platform = [pc |-> "uncalled", hyperion_id |-> None]
    /\ setup_pc = "uncalled"
    /\ current_entities = {}
    /\ updates = 0
    /\ runs = <<>>
    /\ last_run = NoRun
    /\ clients = <<>>
    /\ entities = <<>>
    /\ signals_sent = {}
    /\ registry_removed = {}
    /\ connects = {}
    /\ effect = NoEffect

Start == root_instances \in Snapshots /\ Fresh

Init == server_id \in ServerIds /\ Start

\* setup on a server with two instances
InitIds ==
    /\ server_id \in ServerIds
    /\ root_instances \in TwoInstanceSnapshots
    /\ Fresh

\* setup of a config entry whose unique id may be None
InitSetup == server_id \in OptionalServerIds /\ Start

\* lines 49 and 52: not x
Falsy(x) == x = None \/ x = Some("")

\* async_setup_platform (lines 36-55): connected says whether line 48 got a
\* client, hyperion_id is what line 51 returns
SetupPlatform(connected, hyperion_id) ==
    /\ platform.pc = "uncalled"
    /\ platform' =
          IF ~connected THEN [pc |-> "PlatformNotReady", hyperion_id |-> None]
          ELSE IF Falsy(hyperion_id)
          THEN [pc |-> "PlatformNotReady", hyperion_id |-> hyperion_id]
          ELSE [pc |-> "returned", hyperion_id |-> hyperion_id]
    /\ UNCHANGED <<server_id, root_instances, setup_pc, current_entities,
                   updates, runs, last_run, clients, entities, signals_sent,
                   registry_removed, connects, effect>>

\* async_setup_entry calls the diff on the root client's instances (lines
\* 61-120), which runs up to its first await of line 89 or to its end
Setup ==
    /\ setup_pc = "uncalled"
    /\ Continue(<<NewRun("setup", root_instances)>>, 1,
                current_entities, entities)
    /\ UNCHANGED <<server_id, root_instances, platform, updates, clients, effect>>

\* the unique ids of the entities that have been removed from the host
Gone ==
    {entities[e].unique_id :
        e \in {k \in DOMAIN entities : entities[k].st = "removed"}}

\* async_dispatcher_send runs a coroutine listener as a task of the event
\* loop for every signal: a delivery does not wait for the runs in progress
Deliverable(rs) == TRUE

\* a listener connected before the initial diff is awaited
SubscribedEarly(pc) == pc \in {"line118", "returned"}

\* lines 118-127: async_dispatcher_connect is called once the initial diff has
\* returned, so the listener hears the update signal from then on
Subscribed(pc) == pc = "returned"

\* the dispatcher delivers an update signal to the listener, as a task of its
\* own: lines 66-68, then the diff up to its first await of line 89 or its end
UpdateSignal(response) ==
    /\ Subscribed(setup_pc)
    /\ Deliverable(runs)
    /\ updates < MaxUpdates
    /\ updates' = updates + 1
    /\ IF Ignored(response)
       THEN UNCHANGED <<setup_pc, current_entities, runs, last_run, entities,
                        signals_sent, registry_removed, connects>>
       ELSE Continue(Append(runs, [NewRun("update", response[KEY_DATA])
                                     EXCEPT !.gone = Gone]),
                     Len(runs) + 1, current_entities, entities)
    /\ UNCHANGED <<server_id, root_instances, platform, clients, effect>>

\* the await of line 89 returns a handle (ok) or None; lines 92-102, then on
ConnectReturns(r, ok) ==
    /\ runs[r].pc = "connect"
    /\ ok => Cardinality(DOMAIN clients) < MaxClients
    /\ LET run == runs[r]
           instance_id == run.instances[run.i][KEY_INSTANCE]
           component == ComponentTypes[run.c]
           unique_id == UniqueIdAt(server_id, run.instances, run.i, run.c)
           hyperion_client == FreshKey(unique_id, DOMAIN clients)
           entity == FreshKey(unique_id, DOMAIN entities)
           ents == IF ok
                   THEN entities @@
                        (entity :> NewEntity(unique_id, component,
                                             hyperion_client, run.kind))
                   ELSE entities
           next == [run EXCEPT
                      !.c = run.c + 1,
                      !.entities_to_add = CollectedAfter(@, entity, ok)]
       IN  /\ clients' = IF ok
                         THEN clients @@ (hyperion_client :> NewClient(instance_id))
                         ELSE clients
           /\ Continue([runs EXCEPT ![r] = next], r,
                       KnownAfter(current_entities, unique_id, ok), ents)
    /\ UNCHANGED <<server_id, root_instances, platform, updates, effect>>

\* the await of line 89 raises: nothing in the diff catches it, so the call
\* ends there, before line 112; setup passes the exception on (line 118)
ConnectRaises(r) ==
    /\ runs[r].pc = "connect"
    /\ runs' = Without(runs, r)
    /\ setup_pc' = IF runs[r].kind = "setup" THEN "raised" ELSE setup_pc
    /\ UNCHANGED <<server_id, root_instances, platform, current_entities,
                   updates, last_run, clients, entities, signals_sent,
                   registry_removed, connects, effect>>

NextReconciler ==
    \/ Setup
    \/ \E response \in Responses : UpdateSignal(response)
    \/ \E r \in DOMAIN runs, ok \in BOOLEAN : ConnectReturns(r, ok)

(***************************************************************************)
(* Actions on an entity.                                                   *)
(***************************************************************************)
\* the host adds the entity it was handed: async_added_to_hass (lines 198-216)
AddedToHass(e) ==
    /\ entities[e].st = "uninitialized"
    /\ LET entity == entities[e] IN
       /\ entities' = [entities EXCEPT ![e].st = "active",
                                       ![e].listener = Listener(entity)]
       /\ clients' = [clients EXCEPT ![entity.client] = SetCallbacks(@, e)]
       /\ effect' = Effect("added", e, is_on(entity), <<>>,
                           UpdateComponents(entity, None, is_on(entity)))
    /\ UNCHANGED <<server_id, root_instances, platform, setup_pc, current_entities,
                   updates, runs, last_run, signals_sent, registry_removed,
                   connects>>

\* the server pushes a components update to a connected client: the client
\* renews its cache and calls the callback it holds (lines 194-196, 211)
ComponentsUpdate(h, on, payload) ==
    /\ clients[h].connected
    /\ clients' = [clients EXCEPT ![h].is_on = on]
    /\ \/ /\ clients[h].callbacks = {}
          /\ UNCHANGED effect
       \/ \E e \in clients[h].callbacks :
             effect' = [Effect("update", e, on, <<>>,
                               UpdateComponents(entities[e], payload, on))
                        EXCEPT !.given = <<payload>>]
    /\ UNCHANGED <<server_id, root_instances, platform, setup_pc, current_entities,
                   updates, runs, last_run, entities, signals_sent,
                   registry_removed, connects>>

\* the host turns the entity on: async_turn_on (lines 169-180); result is
\* what async_send_set_component returns when it is called
TurnOn(e, result) ==
    /\ entities[e].st = "active"
    /\ effect' = Replied(Effect("turn_on", e, is_on(entities[e]),
                                TurnOnCalls(entities[e], is_on(entities[e])),
                                <<>>),
                         TurnOnCalls(entities[e], is_on(entities[e])), result)
    /\ UNCHANGED <<server_id, root_instances, platform, setup_pc, current_entities,
                   updates, runs, last_run, clients, entities, signals_sent,
                   registry_removed, connects>>

\* the host turns the entity off: async_turn_off (lines 182-192)
TurnOff(e, result) ==
    /\ entities[e].st = "active"
    /\ effect' = Replied(Effect("turn_off", e, is_on(entities[e]),
                                TurnOffCalls(entities[e], is_on(entities[e])),
                                <<>>),
                         TurnOffCalls(entities[e], is_on(entities[e])), result)
    /\ UNCHANGED <<server_id, root_instances, platform, setup_pc, current_entities,
                   updates, runs, last_run, clients, entities, signals_sent,
                   registry_removed, connects>>

\* lines 218-220: the known set after an entity of the unique id was removed;
\* the removal does not reach into the closure of async_setup_entry
KnownAfterRemovalForgets(known, unique_id) == known \ {unique_id}

KnownAfterRemoval(known, unique_id) == known

\* the host removes the entity e: async_will_remove_from_hass (lines 218-220),
\* then the listener is disconnected (async_on_remove, line 201)
Remove(ents, cls, e) ==
    [entities |-> [ents EXCEPT ![e].st = "removed", ![e].listener = {}],
     clients |-> [cls EXCEPT ![ents[e].client] = Disconnected(@)]]

RECURSIVE RemoveAll(_, _, _)
RemoveAll(ents, cls, es) ==
    IF es = {} THEN [entities |-> ents, clients |-> cls]
    ELSE LET e == CHOOSE x \in es : TRUE
             one == Remove(ents, cls, e)
         IN  RemoveAll(one.entities, one.clients, es \ {e})

\* a dispatcher that calls every listener, whatever the topic
HeardByAll(ents, topic) == {e \in DOMAIN ents : ents[e].listener # {}}

\* the entities whose listener is connected to the topic (lines 201-207)
Heard(ents, topic) == {e \in DOMAIN ents : topic \in ents[e].listener}

\* a removal signal for a unique id is broadcast: every listener of its topic
\* runs async_remove (line 205)
RemovalSignal(topic) ==
    /\ LET heard == Heard(entities, topic)
           after == RemoveAll(entities, clients, heard)
       IN  /\ heard # {}
           /\ entities' = after.entities
           /\ clients' = after.clients
           /\ effect' = Effect("signal", <<topic>>, FALSE, <<>>, <<>>)
    /\ current_entities' = KnownAfterRemoval(current_entities, topic)
    /\ UNCHANGED <<server_id, root_instances, platform, setup_pc, updates,
                   runs, last_run, signals_sent, registry_removed, connects>>

\* the host tears the entity down (unload of the entry, removal by the user)
HostRemove(e) ==
    /\ entities[e].st = "active"
    /\ LET after == Remove(entities, clients, e) IN
       /\ entities' = after.entities
       /\ clients' = after.clients
       /\ effect' = Effect("teardown", e, FALSE, <<>>, <<>>)
    /\ current_entities' =
          KnownAfterRemoval(current_entities, entities[e].unique_id)
    /\ UNCHANGED <<server_id, root_instances, platform, setup_pc, updates,
                   runs, last_run, signals_sent, registry_removed, connects>>

\* the argument of the callback: absent, an empty dictionary, an update
Payloads == {None, Some(<<>>), Some([components |-> <<>>])}

NextEntity ==
    \/ \E e \in DOMAIN entities : AddedToHass(e)
    \/ \E h \in DOMAIN clients, on \in BOOLEAN, payload \in Payloads :
          ComponentsUpdate(h, on, payload)
    \/ \E e \in DOMAIN entities, result \in BOOLEAN : TurnOn(e, result)
    \/ \E e \in DOMAIN entities, result \in BOOLEAN : TurnOff(e, result)
    \/ \E e \in DOMAIN entities : RemovalSignal(entities[e].unique_id)
    \/ \E e \in DOMAIN entities : HostRemove(e)

\* the reconciler: setup and the update signals, whose diffs overlap
Next == NextReconciler

Spec == Init /\ [][Next]_vars

\* setup alone, then the life of the entities it made
NextLife ==
    \/ Setup
    \/ \E r \in DOMAIN runs, ok \in BOOLEAN : ConnectReturns(r, ok)
    \/ NextEntity

SpecLife == Init /\ [][NextLife]_vars

\* the reconciler when an acquisition can also end in an exception
NextAbort ==
    \/ NextReconciler
    \/ \E r \in DOMAIN runs : ConnectRaises(r)

SpecAbort == Init /\ [][NextAbort]_vars

\* the reconciler and the removal of the entities it made
NextRemoval ==
    \/ Setup
    \/ \E response \in DataResponses : UpdateSignal(response)
    \/ \E r \in DOMAIN runs, ok \in BOOLEAN : ConnectReturns(r, ok)
    \/ \E e \in DOMAIN entities : AddedToHass(e)
    \/ \E e \in DOMAIN entities : RemovalSignal(entities[e].unique_id)
    \/ \E e \in DOMAIN entities : HostRemove(e)

SpecRemoval == Init /\ [][NextRemoval]_vars

\* the two setup entry points, for a server id that may be absent
NextSetup ==
    \/ \E connected \in BOOLEAN, hyperion_id \in SysinfoIds :
          SetupPlatform(connected, hyperion_id)
    \/ Setup
    \/ \E r \in DOMAIN runs, ok \in BOOLEAN : ConnectReturns(r, ok)

SpecSetup == InitSetup /\ [][NextSetup]_vars

\* setup deriving the identifiers of two instances
NextIds ==
    \/ Setup
    \/ \E r \in DOMAIN runs, ok \in BOOLEAN : ConnectReturns(r, ok)

SpecIds == InitIds /\ [][NextIds]_vars

(***************************************************************************)
(* Vocabulary of the properties.                                           *)
(***************************************************************************)
\* the unique ids the entities of a list carry
Ids(seq) == {entities[e].unique_id : e \in Range(seq)}

\* the unique ids of the entities the diff of setup constructed
SetupCreated ==
    {entities[e].unique_id : e \in {k \in DOMAIN entities : entities[k].by = "setup"}}

\* the unique ids of the running instances of a snapshot
DesiredIds(sid, instances) ==
    {get_hyperion_unique_id(sid, instances[i][KEY_INSTANCE],
                            TYPE_HYPERION_SWITCH \o "_" \o ComponentTypes[c]) :
        i \in {j \in DOMAIN instances :
                  /\ KEY_INSTANCE \in DOMAIN instances[j]
                  /\ KEY_RUNNING \in DOMAIN instances[j]
                  /\ instances[j][KEY_RUNNING]},
        c \in DOMAIN ComponentTypes}

\* position (i, c) of a snapshot comes before position (j, d)
Before(i, c, j, d) == i < j \/ (i = j /\ c < d)

\* the unique ids of the running instances at the positions of a snapshot
\* strictly between (i, c) and (j, d)
IdsBetween(instances, i, c, j, d) ==
    {UniqueIdAt(server_id, instances, q[1], q[2]) :
        q \in {p \in (DOMAIN instances) \X (DOMAIN ComponentTypes) :
                         /\ ~Skipped(instances[p[1]])
                         /\ Before(i, c, p[1], p[2])
                         /\ Before(p[1], p[2], j, d)}}

\* the diff of an update signal that carried the instances setup had has
\* returned
Rerun ==
    /\ last_run.kind = "update"
    /\ last_run.instances = root_instances

\* it was the only update signal so far: the second run of the diff
SecondRun == Rerun /\ updates = 1

(***************************************************************************)
(* C1.  An identifier that appears in several snapshots gets one entity:   *)
(* no two entities that were constructed carry the same unique id.         *)
(* Two update signals whose diffs overlap at line 89 break it.             *)
(***************************************************************************)
C1_OneEntityPerIdentifier ==
    \A e1, e2 \in DOMAIN entities :
        entities[e1].unique_id = entities[e2].unique_id => e1 = e2

(***************************************************************************)
(* C2.  The diff of one update event has returned before the diff of the   *)
(* next one starts: at most one call of the diff routine is suspended at   *)
(* line 89 at any time.                                                    *)
(***************************************************************************)
C2_DiffRunsNeverOverlap == Len(runs) <= 1

(***************************************************************************)
(* C3.  As claimed: the diff run again on the snapshot of setup hands no   *)
(* entity to the host.                                                     *)
(***************************************************************************)
C3_RerunCreatesNothing == SecondRun => last_run.entities_to_add = <<>>

(***************************************************************************)
(* C3, amended.  The diff run again on the snapshot of setup hands over    *)
(* entities only for identifiers of that snapshot for which setup made no  *)
(* entity, its acquisition having failed; none when setup made them all.   *)
(* It holds of the second run and of every later run on that snapshot.     *)
(***************************************************************************)
C3_RerunCreatesOnlyWhatFailed ==
    Rerun =>
        /\ Ids(last_run.entities_to_add)
              \subseteq DesiredIds(server_id, root_instances) \ SetupCreated
        /\ SetupCreated = DesiredIds(server_id, root_instances)
              => last_run.entities_to_add = <<>>

C3_Witness ==
    /\ SecondRun
    /\ SetupCreated # {}
    /\ last_run.entities_to_add # <<>>

(***************************************************************************)
(* C4.  async_turn_on sends nothing when the client's cache says the       *)
(* component is on, and one set-component(state = True) for the entity's   *)
(* own component, on its own client, when the cache says it is off.        *)
(***************************************************************************)
C4_TurnOnSendsOnlyWhenOff ==
    effect.op = "turn_on" =>
        LET entity == entities[effect.entity]
            on == clients[entity.client].is_on
        IN  IF on
            THEN effect.calls = <<>>
            ELSE effect.calls =
                    <<[client |-> entity.client, component |-> entity.name,
                       state |-> TRUE]>>

C4_Witness ==
    /\ effect.op = "turn_on"
    /\ clients[entities[effect.entity].client].is_on
    /\ effect.calls = <<>>

(***************************************************************************)
(* C5.  async_turn_off sends one set-component(state = False) for the      *)
(* entity's own component, on its own client, whatever the cache says.     *)
(***************************************************************************)
C5_TurnOffAlwaysSends ==
    effect.op = "turn_off" =>
        LET entity == entities[effect.entity] IN
        effect.calls = <<[client |-> entity.client, component |-> entity.name,
                          state |-> FALSE]>>

C5_Witness ==
    /\ effect.op = "turn_off"
    /\ ~clients[entities[effect.entity].client].is_on
    /\ Len(effect.calls) = 1

(***************************************************************************)
(* C6.  When line 89 returns None to a run, the step adds nothing to       *)
(* current_entities and constructs no entity; the run neither stops nor    *)
(* fails: it goes on to the next pair that is not known and asks a client  *)
(* for it, or returns normally having handed over what it had collected,   *)
(* every pair it passed over being known.  A diff that starts asks a       *)
(* client for the first identifier of a running instance that is not       *)
(* known, so an identifier that failed is asked for again.                 *)
(***************************************************************************)
\* the step is the return of None to the run at position r of runs
ReturnsNone(r) ==
    /\ runs[r].pc = "connect"
    /\ clients' = clients
    /\ updates' = updates
    /\ \/ /\ Len(runs') = Len(runs)
          /\ runs'[r] # runs[r]
          /\ \A q \in DOMAIN runs : q # r => runs'[q] = runs[q]
       \/ /\ Len(runs') = Len(runs) - 1
          /\ runs' = Without(runs, r)

SkipAndGoOn(r) ==
    LET run == runs[r] IN
    /\ current_entities' = current_entities
    /\ DOMAIN entities' = DOMAIN entities
    /\ IF Len(runs') = Len(runs)
       THEN LET next == runs'[r] IN
            /\ next.pc = "connect"
            /\ next.instances = run.instances
            /\ next.entities_to_add = run.entities_to_add
            /\ Before(run.i, run.c, next.i, next.c)
            /\ IdsBetween(run.instances, run.i, run.c, next.i, next.c)
                  \subseteq current_entities'
            /\ UniqueIdAt(server_id, next.instances, next.i, next.c)
                  \in connects' \ current_entities'
       ELSE /\ last_run'.pc = "done"
            /\ last_run'.instances = run.instances
            /\ last_run'.entities_to_add = run.entities_to_add
            /\ IdsBetween(run.instances, run.i, run.c, Len(run.instances) + 1, 1)
                  \subseteq current_entities'
            /\ \A e \in Range(run.entities_to_add) :
                  entities'[e].st = "uninitialized"

\* the step starts a diff, which stops at line 89
StartsAndAsks ==
    /\ Len(runs') = Len(runs) + 1
    /\ runs'[Len(runs')].pc = "connect"

AsksForFirstUnknown ==
    LET new == runs'[Len(runs')] IN
    /\ IdsBetween(new.instances, 0, 0, new.i, new.c) \subseteq current_entities
    /\ UniqueIdAt(server_id, new.instances, new.i, new.c)
          \in connects' \ current_entities

C6_FailedAcquisitionIsSkipped ==
    [][/\ \A r \in DOMAIN runs : ReturnsNone(r) => SkipAndGoOn(r)
       /\ StartsAndAsks => AsksForFirstUnknown]_vars

\* an identifier for which setup got no client has its entity from an update
C6_Witness ==
    \E e \in DOMAIN entities :
        /\ entities[e].by = "update"
        /\ entities[e].unique_id \in DesiredIds(server_id, root_instances)
        /\ entities[e].unique_id \notin SetupCreated
        /\ entities[e].st = "uninitialized"

(***************************************************************************)
(* C7.  The diff removes nothing: current_entities never loses an          *)
(* identifier, no removal signal is broadcast, no registry entry is        *)
(* deleted and no entity is removed, also when an instance that has        *)
(* entities is reported stopped or is missing from a snapshot.             *)
(***************************************************************************)
C7_NothingIsRemoved ==
    [][/\ current_entities \subseteq current_entities'
       /\ signals_sent' = {}
       /\ registry_removed' = {}
       /\ \A e \in DOMAIN entities :
             e \in DOMAIN entities' /\ entities'[e].st # "removed"]_vars

\* a diff of a snapshot in which nothing runs has returned, and the
\* identifiers of instance 1 are still known
C7_Witness ==
    /\ last_run.kind = "update"
    /\ last_run.instances = SnapshotIdle
    /\ current_entities # {}
    /\ current_entities \subseteq DesiredIds(server_id, SnapshotABC)

(***************************************************************************)
(* C8.  As claimed: with server id "abc" and the one running instance 1    *)
(* whose components are USB_CAPTURE and LEDDEVICE, setup hands over two    *)
(* entities, for USB_CAPTURE and LEDDEVICE (here when no acquisition       *)
(* failed).                                                                *)
(***************************************************************************)
SetupOfABC ==
    /\ server_id = Some("abc")
    /\ root_instances = SnapshotABC
    /\ updates = 0
    /\ last_run.kind = "setup"

C8_TwoRequestsFromInstanceComponents ==
    SetupOfABC /\ Cardinality(DOMAIN clients) = Cardinality(connects) =>
        /\ Len(last_run.entities_to_add) = 2
        /\ Ids(last_run.entities_to_add) =
              {"abc_1_hyperion_switch_USB_CAPTURE",
               "abc_1_hyperion_switch_LEDDEVICE"}

(***************************************************************************)
(* C8, amended.  Setup asks a client for each of the four component types  *)
(* of the fixed list, whatever the components of the instance, and hands   *)
(* over, in that order, one entity for each of them whose acquisition      *)
(* succeeded, named by the component type, with the identifier             *)
(* abc_1_hyperion_switch_<component type>.                                 *)
(***************************************************************************)
FixedRequests ==
    <<[unique_id |-> "abc_1_hyperion_switch_BOBLIGHTSERVER",
       name |-> "BOBLIGHTSERVER"],
      [unique_id |-> "abc_1_hyperion_switch_GRABBER", name |-> "GRABBER"],
      [unique_id |-> "abc_1_hyperion_switch_V4L", name |-> "V4L"],
      [unique_id |-> "abc_1_hyperion_switch_LEDDEVICE", name |-> "LEDDEVICE"]>>

\* a client was acquired for the request
Acquired(request) == \E h \in DOMAIN clients : h[1] = request.unique_id

Requests(seq) ==
    [k \in DOMAIN seq |->
        [unique_id |-> entities[seq[k]].unique_id, name |-> entities[seq[k]].name]]

C8_RequestsFromFixedList ==
    SetupOfABC =>
        /\ connects = {FixedRequests[k].unique_id : k \in DOMAIN FixedRequests}
        /\ Requests(last_run.entities_to_add) = SelectSeq(FixedRequests, Acquired)

C8_Witness == SetupOfABC /\ Len(last_run.entities_to_add) = 4

(***************************************************************************)
(* C9.  An entity goes from uninitialized (constructed, then handed to the *)
(* host) to active to removed, and stays removed.  The step to active      *)
(* connects the listener of the removal signal of its own unique id, sets  *)
(* its _update_components as the callback of its client and writes its     *)
(* state once.  No write of the state of a removed entity follows.         *)
(***************************************************************************)
Lifecycle ==
    {<<"constructed", "uninitialized">>, <<"uninitialized", "active">>,
     <<"active", "removed">>}

C9_Lifecycle ==
    [][\A e \in DOMAIN entities :
          /\ e \in DOMAIN entities'
          /\ LET old == entities[e]
                 new == entities'[e]
             IN  /\ old.st # new.st => <<old.st, new.st>> \in Lifecycle
                 /\ old.st = "uninitialized" /\ new.st = "active" =>
                       /\ new.listener = {old.unique_id}
                       /\ e \in clients'[old.client].callbacks
                       /\ effect'.entity = e
                       /\ Len(effect'.written) = 1
                 /\ new.st # "active" => new.listener = {}
                 /\ old.st = "removed" =>
                       /\ new.st = "removed"
                       /\ effect' # effect =>
                             ~(effect'.entity = e /\ effect'.written # <<>>)]_vars

C9_Witness ==
    \E e \in DOMAIN entities :
        /\ entities[e].st = "removed"
        /\ clients[entities[e].client].callbacks = {e}

TurnOps == {"turn_on", "turn_off"}

C11_CommandFailureIsAbsorbed ==
    [][effect'.op \in TurnOps /\ effect' # effect =>
          /\ effect'.ended = "None"
          /\ effect'.written = <<>>
          /\ entities' = entities
          /\ clients' = clients
          /\ current_entities' = current_entities]_vars

\* a turn-on whose set-component call returned failure has ended
C11_Witness ==
    /\ effect.op = "turn_on"
    /\ effect.given = <<FALSE>>
    /\ effect.ended = "None"

(***************************************************************************)
(* C12.  A server identifier that is absent at setup is surfaced as not    *)
(* ready by every setup entry point: async_setup_platform returns only     *)
(* with a server id, and async_setup_entry asks for no client and derives  *)
(* no identifier when the unique id of its config entry is None.           *)
(* async_setup_entry has no such check (line 74).                          *)
(***************************************************************************)
C12_AbsentServerIdIsNotReady ==
    /\ platform.pc = "returned" => ~Falsy(platform.hyperion_id)
    /\ server_id = None => connects = {} /\ setup_pc = "uncalled"

(***************************************************************************)
(* C13.  For the server id of the entry, the identifiers line 83 derives   *)
(* for two distinct pairs of an integer instance id and a component type   *)
(* of the fixed list are distinct: the identifiers a run has derived so    *)
(* far (line 86) are as many as the pairs it has passed.                   *)
(***************************************************************************)
\* the positions of the running instances of a run up to where the run is
Passed(run) ==
    {p \in (DOMAIN run.instances) \X (DOMAIN ComponentTypes) :
        /\ ~Skipped(run.instances[p[1]])
        /\ Before(p[1], p[2], run.i, run.c) \/ p = <<run.i, run.c>>}

PairAt(run, p) == <<run.instances[p[1]][KEY_INSTANCE], ComponentTypes[p[2]]>>

C13_DistinctPairsDistinctIdentifiers ==
    \A r \in DOMAIN runs :
        LET run == runs[r] IN
        /\ run.desired_unique_ids =
              {UniqueIdAt(server_id, run.instances, p[1], p[2]) : p \in Passed(run)}
        /\ \A p, q \in Passed(run) :
              PairAt(run, p) # PairAt(run, q) =>
                  UniqueIdAt(server_id, run.instances, p[1], p[2])
                      # UniqueIdAt(server_id, run.instances, q[1], q[2])
        /\ Cardinality(run.desired_unique_ids) =
              Cardinality({PairAt(run, p) : p \in Passed(run)})

\* a run has derived the identifiers of instances 1 and 11 for every type
C13_Witness ==
    \E r \in DOMAIN runs :
        /\ runs[r].instances = <<Running(1), Running(11)>>
        /\ Cardinality(runs[r].desired_unique_ids) = 2 * Len(ComponentTypes)

(***************************************************************************)
(* C14.  A run of the diff asks for a client exactly for the pairs of an   *)
(* instance that has an id and running = True and a component type of the  *)
(* fixed list whose identifier is not in current_entities when line 87     *)
(* tests it, in the order of the snapshot, and it collects one entity,     *)
(* with that identifier, that component type as name and the client of     *)
(* that instance, exactly when the acquisition succeeds.  What it hands    *)
(* to the host is what it collected.  An instance without id or not        *)
(* running gets no acquisition and no entity.                              *)
(***************************************************************************)
\* the instance has an id and reports running = True
Eligible(instance) ==
    /\ KEY_INSTANCE \in DOMAIN instance
    /\ KEY_RUNNING \in DOMAIN instance
    /\ instance[KEY_RUNNING] = TRUE

\* the identifiers of the pairs of eligible instances strictly between the
\* positions (i, c) and (j, d) of a snapshot
PairsBetween(instances, i, c, j, d) ==
    {UniqueIdAt(server_id, instances, q[1], q[2]) :
        q \in {p \in (DOMAIN instances) \X (DOMAIN ComponentTypes) :
                         /\ Eligible(instances[p[1]])
                         /\ Before(i, c, p[1], p[2])
                         /\ Before(p[1], p[2], j, d)}}

\* every run that is suspended at line 89 is there for an eligible pair
AsksOnlyForEligible ==
    \A r \in DOMAIN runs :
        /\ runs[r].pc = "connect"
        /\ runs[r].c \in DOMAIN ComponentTypes
        /\ Eligible(runs[r].instances[runs[r].i])
        /\ UniqueIdAt(server_id, runs[r].instances, runs[r].i, runs[r].c)
              \in connects

\* the step is the return of line 89 to the run at position r of runs
AcquisitionReturns(r) ==
    /\ updates' = updates
    /\ setup_pc # "uncalled"
    /\ \/ /\ Len(runs') = Len(runs)
          /\ runs'[r] # runs[r]
          /\ \A q \in DOMAIN runs : q # r => runs'[q] = runs[q]
       \/ /\ Len(runs') = Len(runs) - 1
          /\ runs' = Without(runs, r)

\* after the step the run goes on from (i, c) with the entities collected:
\* it is suspended for the next eligible pair that is not known, or has
\* returned and handed them over, every pair it passed being known
GoesOn(instances, i, c, collected, suspended, r) ==
    IF suspended
    THEN LET next == runs'[r] IN
         /\ next.instances = instances
         /\ next.entities_to_add = collected
         /\ Before(i, c, next.i, next.c)
         /\ PairsBetween(instances, i, c, next.i, next.c)
               \subseteq current_entities'
         /\ UniqueIdAt(server_id, instances, next.i, next.c)
               \notin current_entities'
    ELSE /\ last_run'.pc = "done"
         /\ last_run'.instances = instances
         /\ last_run'.entities_to_add = collected
         /\ PairsBetween(instances, i, c, Len(instances) + 1, 1)
               \subseteq current_entities'
         /\ \A e \in Range(collected) : entities'[e].st = "uninitialized"

CollectsWhenAcquired(r) ==
    LET run == runs[r]
        unique_id == UniqueIdAt(server_id, run.instances, run.i, run.c)
        made == DOMAIN entities' \ DOMAIN entities
        got == DOMAIN clients' \ DOMAIN clients
        suspended == Len(runs') = Len(runs)
    IN  IF got = {}
        THEN /\ made = {}
             /\ current_entities' = current_entities
             /\ GoesOn(run.instances, run.i, run.c, run.entities_to_add,
                       suspended, r)
        ELSE /\ Cardinality(got) = 1 /\ Cardinality(made) = 1
             /\ current_entities' = current_entities \cup {unique_id}
             /\ \A e \in made, h \in got :
                   /\ entities'[e].unique_id = unique_id
                   /\ entities'[e].name = ComponentTypes[run.c]
                   /\ entities'[e].client = h
                   /\ clients'[h].instance = run.instances[run.i][KEY_INSTANCE]
                   /\ GoesOn(run.instances, run.i, run.c,
                             Append(run.entities_to_add, e), suspended, r)

\* the step is a call of the diff routine, by setup or by an update signal
\* that carries data: it runs up to its first acquisition or to its end
DiffStarts ==
    \/ Len(runs') = Len(runs) + 1
    \/ setup_pc = "uncalled" /\ setup_pc' = "returned"
    \/ updates' # updates /\ last_run' # last_run

StartsAtFirstUnknown ==
    /\ DOMAIN entities' = DOMAIN entities
    /\ DOMAIN clients' = DOMAIN clients
    /\ current_entities' = current_entities
    /\ IF Len(runs') = Len(runs) + 1
       THEN /\ SubSeq(runs', 1, Len(runs)) = runs
            /\ GoesOn(runs'[Len(runs')].instances, 0, 0, <<>>, TRUE, Len(runs'))
       ELSE GoesOn(last_run'.instances, 0, 0, <<>>, FALSE, 0)

C14_RequestsForUnknownRunningPairs ==
    /\ []AsksOnlyForEligible
    /\ [][/\ \A r \in DOMAIN runs :
                AcquisitionReturns(r) => CollectsWhenAcquired(r)
          /\ DiffStarts => StartsAtFirstUnknown]_vars

\* the diff of an update has handed over an entity of an instance that comes
\* after a stopped one, one of its identifiers being known from setup and
\* another having failed in this run
C14_Witness ==
    /\ root_instances = SnapshotMixed
    /\ last_run.kind = "update"
    /\ last_run.instances = SnapshotABC
    /\ SetupCreated # {}
    /\ last_run.entities_to_add # <<>>
    /\ DesiredIds(server_id, SnapshotABC) \ current_entities # {}

(***************************************************************************)
(* C15.  A components update pushed by a connected client reaches the      *)
(* active entity that holds the client, and _update_components then writes *)
(* the entity's state once, as the client's cache has it, and returns,     *)
(* whatever the payload: absent, empty or not.  Nothing else of the entity *)
(* changes.                                                                *)
(***************************************************************************)
PushReachesActive ==
    \A e \in DOMAIN entities :
        entities[e].st = "active" =>
            /\ clients[entities[e].client].callbacks = {e}
            /\ clients[entities[e].client].connected

C15_PushRendersOnceFromCache ==
    /\ []PushReachesActive
    /\ [][effect'.op = "update" /\ effect' # effect =>
             LET e == effect'.entity IN
             /\ entities[e].st = "active"
             /\ effect'.written = <<clients'[entities[e].client].is_on>>
             /\ effect'.ended = "None"
             /\ effect'.calls = <<>>
             /\ entities' = entities]_vars

\* a push with an empty payload rendered the entity on
C15_Witness ==
    /\ effect.op = "update"
    /\ effect.given = <<Some(<<>>)>>
    /\ effect.written = <<TRUE>>

(***************************************************************************)
(* C16.  A removal signal for the unique id X removes from the host the    *)
(* active entities whose unique id is X, and each of them disconnects its  *)
(* client; every other entity, every other client and current_entities     *)
(* are as they were.                                                       *)
(***************************************************************************)
\* the step is the broadcast of a removal signal that some entity heard
SignalRemoves ==
    /\ effect'.op = "signal"
    /\ \E e \in DOMAIN entities :
          entities[e].st = "active" /\ entities'[e].st = "removed"

C16_RemovalSignalIsScoped ==
    [][SignalRemoves =>
          LET X == effect'.entity[1] IN
          /\ current_entities' = current_entities
          /\ DOMAIN entities' = DOMAIN entities
          /\ DOMAIN clients' = DOMAIN clients
          /\ \A e \in DOMAIN entities :
                IF entities[e].unique_id = X /\ entities[e].st = "active"
                THEN /\ entities'[e].st = "removed"
                     /\ ~clients'[entities[e].client].connected
                     /\ clients'[entities[e].client].disconnects =
                           clients[entities[e].client].disconnects + 1
                ELSE /\ entities'[e] = entities[e]
                     /\ clients'[entities[e].client] = clients[entities[e].client]]_vars

\* the signal removed one entity and left an active one of another id
C16_Witness ==
    /\ effect.op = "signal"
    /\ \E e1, e2 \in DOMAIN entities :
          /\ entities[e1].unique_id = effect.entity[1]
          /\ entities[e1].st = "removed"
          /\ entities[e2].unique_id # effect.entity[1]
          /\ entities[e2].st = "active"
          /\ clients[entities[e2].client].connected

(***************************************************************************)
(* C17.  Whenever no call of the diff routine is in progress,              *)
(* current_entities holds exactly the unique ids of the entities that were *)
(* handed to the host by async_add_entities, also after a call was ended   *)
(* by an exception of line 89.  Such a call has added the identifiers of   *)
(* its earlier entities (line 94) and never reaches line 112.              *)
(***************************************************************************)
\* the unique ids of the entities line 112 handed to the host
HandedOver ==
    {entities[e].unique_id :
        e \in {k \in DOMAIN entities : entities[k].st # "constructed"}}

C17_KnownIsWhatWasHandedOver == runs = <<>> => current_entities = HandedOver

(***************************************************************************)
(* C18.  The unique id of an entity that was removed, by its removal       *)
(* signal or by the host, stays in current_entities, so a diff called by   *)
(* an update signal delivered after the removal asks for no client and     *)
(* constructs no entity for it, also when its snapshot reports the         *)
(* instance running.                                                       *)
(***************************************************************************)
C18_RemovedIsNeverCreatedAgain ==
    /\ Gone \subseteq current_entities
    /\ \A r \in DOMAIN runs :
          /\ UniqueIdAt(server_id, runs[r].instances, runs[r].i, runs[r].c)
                \notin runs[r].gone
          /\ Ids(runs[r].entities_to_add) \cap runs[r].gone = {}
    /\ Ids(last_run.entities_to_add) \cap last_run.gone = {}

\* a diff called after a removal, on a snapshot that reports the instance
\* of the removed entity running, has returned with an entity for another
\* identifier
C18_Witness ==
    /\ last_run.kind = "update"
    /\ last_run.gone \cap DesiredIds(server_id, last_run.instances) # {}
    /\ last_run.entities_to_add # <<>>

(***************************************************************************)
(* C19.  The delivery of an update signal whose response is empty or has   *)
(* no data key returns at line 67: current_entities is unchanged, no       *)
(* client is asked for, no call of the diff starts or returns and nothing  *)
(* is handed to the host.  No update signal is delivered before the        *)
(* initial diff of setup has returned, the listener being connected after  *)
(* it (lines 118-127).                                                     *)
(***************************************************************************)
WithoutData ==
    {response \in Responses :
        DOMAIN response = {} \/ "data" \notin DOMAIN response}

C19_IgnoredResponseChangesNothing ==
    [][/\ \A response \in WithoutData :
             UpdateSignal(response) =>
                 /\ updates' = updates + 1
                 /\ UNCHANGED <<current_entities, connects, clients, entities,
                                runs, last_run, setup_pc>>
       /\ updates' # updates =>
             /\ setup_pc = "returned"
             /\ last_run.kind # "none"
             /\ \A r \in DOMAIN runs : runs[r].kind # "setup"]_vars

\* two update signals were delivered and neither called the diff, though an
\* identifier of the running instance is still unknown
C19_Witness ==
    /\ updates = 2
    /\ runs = <<>>
    /\ last_run.kind = "setup"
    /\ DesiredIds(server_id, root_instances) \ current_entities # {}

====
